---- MODULE Spec2Model ----
(***************************************************************************)
(* Model of the MusiSync browser client.                                   *)
(*                                                                         *)
(* Two page scripts are modelled: src/static/script.js (page "script")     *)
(* and src/unnamed/part_000 (page "part000").  The state is the client's   *)
(* module-level variables and DOM content (musics, the rendered catalog    *)
(* list, the rendered queue list, the now-playing element, the title, the  *)
(* autoplay checkbox, the drag data), the pending one-shot timers, the     *)
(* async function invocations that are suspended on a fetch (tasks), and   *)
(* the state of the server the fetches talk to.                            *)
(***************************************************************************)
EXTENDS Integers, Sequences, FiniteSets, TLC

VARIABLES page, musics, musicList, queueList, nowPlaying, title, atpChecked,
          drag, timers, tasks, srvMusics, srvQueue, srvCurrent, srvAutoplay,
          userOps, ev, fmtIn, fmtOut

vars == <<page, musics, musicList, queueList, nowPlaying, title, atpChecked,
          drag, timers, tasks, srvMusics, srvQueue, srvCurrent, srvAutoplay,
          userOps, ev, fmtIn, fmtOut>>

clientView == <<musics, musicList, queueList, nowPlaying, title>>
server == <<srvMusics, srvQueue, srvCurrent, srvAutoplay>>
fmtVars == <<fmtIn, fmtOut>>

----------------------------------------------------------------------------
(* Bounds of the model *)

\* number of user gestures (a click, a toggle, a drag) in one run
MaxUser == 1
\* number of requests in flight beyond which no gesture or timer adds one
MaxInFlight == 2
\* largest duration handed to the formatter in SpecFmt
MaxDuration == 200

----------------------------------------------------------------------------
(* Universe of the model *)

Pages == {"script", "part000"}

Ids == {"a", "b", "c"}

\* key order of the catalog object as the server serialises it
IdOrder == <<"a", "b", "c">>

NoHash == ""
NoData == <<>>
NoBody == <<>>
NoDrag == "none"

RECURSIVE FirstIndex(_, _, _)
\* smallest position k >= i of seq whose element is in S, 0 when there is none
FirstIndex(seq, S, i) ==
    IF i > Len(seq) THEN 0
    ELSE IF seq[i] \in S THEN i
    ELSE FirstIndex(seq, S, i + 1)

RemoveAt(seq, i) == SubSeq(seq, 1, i - 1) \o SubSeq(seq, i + 1, Len(seq))

InsertAt(seq, i, x) == SubSeq(seq, 1, i - 1) \o <<x>> \o SubSeq(seq, i, Len(seq))

----------------------------------------------------------------------------
(* Formatter *)

\* Math.round(a / b) for integers a >= 0, b > 0: halves round up
MathRound(a, b) == (2 * a + b) \div (2 * b)

\* String.prototype.padStart(2, '0')
padStart2(str) == IF Len(str) < 2 THEN "0" \o str ELSE str

\* the first eight characters of the strings of the model longer than eight
Prefix8 == [x \in {"Intermezzo"} |-> "Intermez"]

\* String.prototype.slice(0, 8)
slice8(str) == IF Len(str) <= 8 THEN str ELSE Prefix8[str]

fancytime(s) ==
    LET dur_sec == padStart2(ToString(MathRound(s % 60, 1)))
        dur_min == padStart2(ToString(MathRound(s, 40)))
    IN  dur_min \o ":" \o dur_sec

fancyname(name, hash, duration) ==
    name \o " <b>&#x2039;" \o slice8(hash) \o "&#x203a;</b>&#x3014;<u>"
         \o fancytime(duration) \o "</u>&#x3015;"

\* the dur_min+":"+dur_sec that fancyname of part_000 embeds in its result
fancyname_part000_time(duration) ==
    LET dur_sec == padStart2(ToString(MathRound(duration % 60, 1)))
        dur_min == padStart2(ToString(MathRound(duration, 40)))
    IN  dur_min \o ":" \o dur_sec

fancyname_part000(name, hash, duration) ==
    name \o " (" \o slice8(hash) \o ") [" \o fancyname_part000_time(duration) \o "]"

\* the label of a catalog or queue row, by page
RowLabel(p, name, hash, duration) ==
    IF p = "script" THEN fancyname(name, hash, duration)
    ELSE fancyname_part000(name, hash, duration)

\* parseInt of a decimal string written by the renderer
parseInt(str) == CHOOSE n \in 0..99 : ToString(n) = str

----------------------------------------------------------------------------
(* Server: the JSON contract the client consumes *)

\* metadata of the tracks the server knows
TrackOf == [h \in Ids |->
              IF h = "a" THEN [name |-> "Song", duration |-> 185]
              ELSE IF h = "b" THEN [name |-> "Tune", duration |-> 59]
              ELSE [name |-> "Intermezzo", duration |-> 125]]

CatalogOf(S) == [h \in S |-> TrackOf[h]]

Nothing == [hash |-> NoHash, paused |-> TRUE, position |-> 0, duration |-> 0]

Playing(h, pos) ==
    [hash |-> h, paused |-> FALSE, position |-> pos, duration |-> TrackOf[h].duration]

\* server state a page is loaded against: the library and the queue
InitMusics == CatalogOf({"a", "b"})
InitQueue == <<"a", "b", "a">>
\* and the player, idle or 42 seconds into a track
InitCurrents == {Nothing, Playing("a", 42)}

\* the library after it has been rescanned: one track gone, one new
RescannedMusics == CatalogOf({"a", "c"})

\* the queue after another client of the server has removed its first entry
OtherClientQueue == RemoveAt(InitQueue, 1)

\* POST /api/queue {hash}
SrvEnqueue(q, h) == Append(q, h)

\* DELETE /api/queue {hash}: one occurrence or every occurrence
SrvDelete(q, h) ==
    LET i == FirstIndex(q, {h}, 1)
    IN  IF i = 0 THEN {q}
        ELSE {RemoveAt(q, i), SelectSeq(q, LAMBDA x : x # h)}

\* POST /api/queue/reorder {from, to}, zero-based positions
SrvReorder(q, from, to) ==
    IF from \in 0..(Len(q) - 1) /\ to \in 0..(Len(q) - 1)
    THEN InsertAt(RemoveAt(q, from + 1), to + 1, q[from + 1])
    ELSE q

----------------------------------------------------------------------------
(* Requests and the async invocations suspended on them *)

Request(fn, method, url, body) ==
    [fn |-> fn, method |-> method, url |-> url, body |-> body,
     pc |-> "sent", data |-> NoData]

\* the async functions whose continuation calls refreshQueue()
Mutations == {"div_onclick", "btn_onclick", "drop", "play", "pause"}

Event(op, arg) == [op |-> op, arg |-> arg, threw |-> FALSE]
Thrown(op, arg) == [op |-> op, arg |-> arg, threw |-> TRUE]

\* let res = await fetch('/api/musics')
call_loadMusics == Request("loadMusics", "GET", "/api/musics", NoBody)

\* let res = await fetch('/api/queue')
call_refreshQueue == Request("refreshQueue", "GET", "/api/queue", NoBody)

\* let npRes = await fetch('/api/current')
fetch_current == Request("refreshQueue", "GET", "/api/current", NoBody)

\* let res = await fetch('/api/autoplay_get')
call_atp_get == Request("atp_get", "GET", "/api/autoplay_get", NoBody)

\* the top-level statements of the page script, in order
StartupCalls(p) ==
    IF p = "script" THEN <<call_loadMusics, call_refreshQueue>>
    ELSE <<call_atp_get, call_loadMusics, call_refreshQueue>>

\* delay of the one-shot timers, in milliseconds
MusicsDelay == 5000
QueueDelay == 1000
Delay == [t \in {"loadMusics", "refreshQueue"} |->
            IF t = "loadMusics" THEN MusicsDelay ELSE QueueDelay]

\* the title of the page before a script sets it: the default that script.js
\* goes back to when nothing plays
DefaultTitle == "MusiSync"

StartupTimers(p) == IF p = "script" THEN {"loadMusics", "refreshQueue"} ELSE {}

Init ==
    /\ page \in Pages
    /\ musics = CatalogOf({})
    /\ musicList = <<>>
    /\ queueList = <<>>
    /\ nowPlaying = ""
    /\ title = DefaultTitle
    /\ atpChecked = FALSE
    /\ drag = NoDrag
    /\ timers = StartupTimers(page)
    /\ tasks = StartupCalls(page)
    /\ srvMusics = InitMusics
    /\ srvQueue = InitQueue
    /\ srvCurrent \in InitCurrents
    /\ srvAutoplay = FALSE
    /\ userOps = 0
    /\ ev = Event("load", "")
    /\ fmtIn = 0
    /\ fmtOut = ""

----------------------------------------------------------------------------
(* Server and environment steps *)

\* the server answers the request of task k; nothing of the client's state
\* depends on the responses of /api/autoplay_get (atp_get logs it) and of
\* /api/autoplay_set (not awaited), so these requests end here
SrvHandle(k) ==
    LET t == tasks[k]
        answer(d) == tasks' = [tasks EXCEPT ![k].pc = "received", ![k].data = d]
    IN
    /\ t.pc = "sent"
    /\ \/ /\ t.url = "/api/musics"
          /\ answer(srvMusics)
          /\ UNCHANGED server
       \/ /\ t.url = "/api/queue" /\ t.method = "GET"
          /\ answer(srvQueue)
          /\ UNCHANGED server
       \/ /\ t.url = "/api/current"
          /\ answer(srvCurrent)
          /\ UNCHANGED server
       \/ /\ t.url = "/api/autoplay_get"
          /\ tasks' = RemoveAt(tasks, k)
          /\ UNCHANGED server
       \/ /\ t.url = "/api/queue" /\ t.method = "POST"
          /\ srvQueue' = SrvEnqueue(srvQueue, t.body.hash)
          /\ answer(NoData)
          /\ UNCHANGED <<srvMusics, srvCurrent, srvAutoplay>>
       \/ /\ t.url = "/api/queue" /\ t.method = "DELETE"
          /\ srvQueue' \in SrvDelete(srvQueue, t.body.hash)
          /\ answer(NoData)
          /\ UNCHANGED <<srvMusics, srvCurrent, srvAutoplay>>
       \/ /\ t.url = "/api/queue/reorder"
          /\ srvQueue' = SrvReorder(srvQueue, t.body.from, t.body.to)
          /\ answer(NoData)
          /\ UNCHANGED <<srvMusics, srvCurrent, srvAutoplay>>
       \/ /\ t.url \in {"/api/play", "/api/pause"}
          /\ srvCurrent' = IF srvCurrent.hash = NoHash THEN srvCurrent
                           ELSE [srvCurrent EXCEPT !.paused = (t.url = "/api/pause")]
          /\ answer(NoData)
          /\ UNCHANGED <<srvMusics, srvQueue, srvAutoplay>>
       \/ /\ t.url = "/api/autoplay_set"
          /\ srvAutoplay' = t.body
          /\ tasks' = RemoveAt(tasks, k)
          /\ UNCHANGED <<srvMusics, srvQueue, srvCurrent>>
    /\ ev' = Event("server", "")
    /\ UNCHANGED <<page, clientView, atpChecked, drag, timers, userOps, fmtVars>>

\* the server rescans its library
EnvRescan ==
    /\ srvMusics = InitMusics
    /\ srvMusics' = RescannedMusics
    /\ ev' = Event("env", "musics")
    /\ UNCHANGED <<page, clientView, atpChecked, drag, timers, tasks, srvQueue,
                   srvCurrent, srvAutoplay, userOps, fmtVars>>

\* another client of the shared queue has a mutation applied by the server
EnvOtherClient ==
    /\ srvQueue = InitQueue
    /\ srvQueue' = OtherClientQueue
    /\ ev' = Event("env", "queue")
    /\ UNCHANGED <<page, clientView, atpChecked, drag, timers, tasks, srvMusics,
                   srvCurrent, srvAutoplay, userOps, fmtVars>>

\* a mutation handler refreshes in a finally block, rejected or not
FetchFails_finally(k) ==
    /\ tasks' = IF tasks[k].fn \in Mutations
                THEN Append(RemoveAt(tasks, k), call_refreshQueue)
                ELSE RemoveAt(tasks, k)
    /\ ev' = Event("fail", tasks[k])
    /\ UNCHANGED <<page, clientView, atpChecked, drag, timers, server, userOps, fmtVars>>

\* the fetch (or the read of its body) that task k awaits is rejected
FetchFails(k) ==
    /\ tasks' = RemoveAt(tasks, k)
    /\ ev' = Event("fail", tasks[k])
    /\ UNCHANGED <<page, clientView, atpChecked, drag, timers, server, userOps, fmtVars>>

----------------------------------------------------------------------------
(* Continuations of the async functions *)

\* Object.entries(data) in the object's key order
Entries(data) == SelectSeq(IdOrder, LAMBDA h : h \in DOMAIN data)

MusicRow(p, h, music_info) ==
    [h |-> h, label |-> RowLabel(p, music_info.name, h, music_info.duration)]

QueueRow(p, h, i, m) ==
    [i |-> i, index |-> ToString(i), h |-> h,
     label |-> RowLabel(p, m[h].name, h, m[h].duration)]

\* position of the first identifier of data that musics lacks, 0 when none
FirstMissing(data, m) == FirstIndex(data, Ids \ DOMAIN m, 1)

\* an identifier that occurs several times gets the row of its first occurrence
RenderedRows_unique(p, data, m) ==
    LET firsts == SelectSeq([j \in 1..Len(data) |-> j],
                            LAMBDA j : FirstIndex(data, {data[j]}, 1) = j)
        miss == FirstMissing(data, m)
        n == IF miss = 0 THEN Len(firsts) ELSE 0
    IN  [j \in 1..n |-> QueueRow(p, data[firsts[j]], firsts[j] - 1, m)]

\* the rows data.forEach appends before it returns or throws
RenderedRows(p, data, m) ==
    LET miss == FirstMissing(data, m)
        n == IF miss = 0 THEN Len(data) ELSE miss - 1
    IN  [j \in 1..n |-> QueueRow(p, data[j], j - 1, m)]

\* the response is merged into the cached mapping: Object.assign(musics, data)
loadMusics_merging(k) ==
    LET t == tasks[k]
        keys == Entries(t.data)
    IN
    /\ t.fn = "loadMusics" /\ t.pc = "received"
    /\ musicList' = [j \in 1..Len(keys) |-> MusicRow(page, keys[j], t.data[keys[j]])]
    /\ musics' = [h \in DOMAIN musics \cup DOMAIN t.data |->
                    IF h \in DOMAIN t.data THEN t.data[h] ELSE musics[h]]
    /\ tasks' = RemoveAt(tasks, k)
    /\ ev' = Event("loadMusics", t.data)
    /\ UNCHANGED <<page, queueList, nowPlaying, title, atpChecked, drag, timers,
                   server, userOps, fmtVars>>

\* loadMusics after its fetch resolved
loadMusics(k) ==
    LET t == tasks[k]
        keys == Entries(t.data)
    IN
    /\ t.fn = "loadMusics" /\ t.pc = "received"
    /\ musicList' = [j \in 1..Len(keys) |-> MusicRow(page, keys[j], t.data[keys[j]])]
    /\ musics' = t.data
    /\ tasks' = RemoveAt(tasks, k)
    /\ ev' = Event("loadMusics", t.data)
    /\ UNCHANGED <<page, queueList, nowPlaying, title, atpChecked, drag, timers,
                   server, userOps, fmtVars>>

\* the container is not emptied: the rows are appended to those on display
refreshQueue_appending(k) ==
    LET t == tasks[k]
    IN
    /\ t.fn = "refreshQueue" /\ t.url = "/api/queue" /\ t.pc = "received"
    /\ queueList' = queueList \o RenderedRows(page, t.data, musics)
    /\ IF FirstMissing(t.data, musics) = 0
       THEN /\ tasks' = [tasks EXCEPT ![k] = fetch_current]
            /\ ev' = Event("refreshQueue", t.data)
       ELSE /\ tasks' = RemoveAt(tasks, k)
            /\ ev' = Thrown("refreshQueue", t.data)
    /\ UNCHANGED <<page, musics, musicList, nowPlaying, title, atpChecked, drag,
                   timers, server, userOps, fmtVars>>

\* refreshQueue after fetch('/api/queue') resolved, up to fetch('/api/current')
refreshQueue(k) ==
    LET t == tasks[k]
    IN
    /\ t.fn = "refreshQueue" /\ t.url = "/api/queue" /\ t.pc = "received"
    /\ queueList' = RenderedRows(page, t.data, musics)
    /\ IF FirstMissing(t.data, musics) = 0
       THEN /\ tasks' = [tasks EXCEPT ![k] = fetch_current]
            /\ ev' = Event("refreshQueue", t.data)
       ELSE /\ tasks' = RemoveAt(tasks, k)
            /\ ev' = Thrown("refreshQueue", t.data)
    /\ UNCHANGED <<page, musics, musicList, nowPlaying, title, atpChecked, drag,
                   timers, server, userOps, fmtVars>>

\* the now-playing text of script.js
NowPlayingText(npData, m) ==
    LET pauseIcon == IF npData.paused THEN "&#x23F8;" ELSE "&#x23F5;"
    IN  pauseIcon \o " " \o fancytime(npData.position) \o " | "
          \o fancyname(m[npData.hash].name, npData.hash, npData.duration)

\* the now-playing text of part_000: name and hash change places
NowPlayingText_part000(npData, m) ==
    fancyname_part000(npData.hash, m[npData.hash].name, m[npData.hash].duration)

\* refreshQueue after fetch('/api/current') resolved
refreshQueue_current(k) ==
    LET t == tasks[k]
        npData == t.data
        known == npData.hash \in DOMAIN musics
    IN
    /\ t.fn = "refreshQueue" /\ t.url = "/api/current" /\ t.pc = "received"
    /\ tasks' = RemoveAt(tasks, k)
    /\ IF page = "script"
       THEN IF npData.hash # NoHash
            THEN IF known
                 THEN /\ nowPlaying' = NowPlayingText(npData, musics)
                      /\ title' = "MusiSync - " \o musics[npData.hash].name
                      /\ ev' = Event("refreshQueue_current", npData)
                 ELSE /\ UNCHANGED <<nowPlaying, title>>
                      /\ ev' = Thrown("refreshQueue_current", npData)
            ELSE /\ nowPlaying' = "Nothing"
                 /\ title' = DefaultTitle
                 /\ ev' = Event("refreshQueue_current", npData)
       ELSE \* part_000: the statement that sets the title always throws
            /\ nowPlaying' = IF npData.hash = NoHash THEN "Nothing"
                             ELSE IF known THEN NowPlayingText_part000(npData, musics)
                             ELSE nowPlaying
            /\ UNCHANGED title
            /\ ev' = Thrown("refreshQueue_current", npData)
    /\ UNCHANGED <<page, musics, musicList, queueList, atpChecked, drag, timers,
                   server, userOps, fmtVars>>

\* a mutation handler after its fetch resolved: refreshQueue()
mutation_then_refresh(k) ==
    LET t == tasks[k]
    IN
    /\ t.fn \in Mutations /\ t.pc = "received"
    /\ tasks' = Append(RemoveAt(tasks, k), call_refreshQueue)
    /\ ev' = Event("mutation_done", t.fn)
    /\ UNCHANGED <<page, clientView, atpChecked, drag, timers, server, userOps, fmtVars>>

\* a one-shot timer expires and runs its callback
timeout(f) ==
    /\ f \in timers
    /\ Len(tasks) < MaxInFlight
    /\ \A g \in timers : Delay[f] <= Delay[g]
    /\ timers' = timers \ {f}
    /\ tasks' = Append(tasks, IF f = "loadMusics" THEN call_loadMusics
                              ELSE call_refreshQueue)
    /\ ev' = Event("timeout", f)
    /\ UNCHANGED <<page, clientView, atpChecked, drag, server, userOps, fmtVars>>

----------------------------------------------------------------------------
(* User gestures *)

\* the user starts a gesture; the pointer is free (no drag is under way)
Gesture ==
    /\ drag = NoDrag
    /\ userOps < MaxUser
    /\ userOps' = userOps + 1

\* JSON.stringify({hash:h})
HashBody(h) == [hash |-> h]

\* the two indices change places in the body
ReorderBody_swapped(from, to) == [from |-> to, to |-> from]

\* JSON.stringify({from,to})
ReorderBody(from, to) == [from |-> from, to |-> to]

\* an event handler issues the request req and suspends on it
Issue(op, arg, req) ==
    /\ Len(tasks) < MaxInFlight
    /\ tasks' = Append(tasks, req)
    /\ ev' = Event(op, arg)

\* the handler appends the row itself before the server has answered
div_onclick_optimistic(r) ==
    /\ r \in 1..Len(musicList)
    /\ Gesture
    /\ Issue("div_onclick", r,
             Request("div_onclick", "POST", "/api/queue", HashBody(musicList[r].h)))
    /\ queueList' = Append(queueList,
                           QueueRow(page, musicList[r].h, Len(queueList), musics))
    /\ UNCHANGED <<page, musics, musicList, nowPlaying, title, atpChecked, drag,
                   timers, server, fmtVars>>

\* click on row r of the catalog list
div_onclick(r) ==
    /\ r \in 1..Len(musicList)
    /\ Gesture
    /\ Issue("div_onclick", r,
             Request("div_onclick", "POST", "/api/queue", HashBody(musicList[r].h)))
    /\ UNCHANGED <<page, clientView, atpChecked, drag, timers, server, fmtVars>>

\* every Delete button shares the identifier of the last row rendered
btn_onclick_shared_h(r) ==
    /\ r \in 1..Len(queueList)
    /\ Gesture
    /\ Issue("btn_onclick", r,
             Request("btn_onclick", "DELETE", "/api/queue",
                     HashBody(queueList[Len(queueList)].h)))
    /\ UNCHANGED <<page, clientView, atpChecked, drag, timers, server, fmtVars>>

\* click on the Delete button of row r of the queue list
btn_onclick(r) ==
    /\ r \in 1..Len(queueList)
    /\ Gesture
    /\ Issue("btn_onclick", r,
             Request("btn_onclick", "DELETE", "/api/queue", HashBody(queueList[r].h)))
    /\ UNCHANGED <<page, clientView, atpChecked, drag, timers, server, fmtVars>>

\* row r of the queue list starts to be dragged
dragstart(r) ==
    /\ r \in 1..Len(queueList)
    /\ Gesture
    /\ drag' = ToString(queueList[r].i)
    /\ ev' = Event("dragstart", r)
    /\ UNCHANGED <<page, clientView, atpChecked, timers, tasks, server, fmtVars>>

\* the drag is given up without a drop on a row
dragend ==
    /\ drag # NoDrag
    /\ drag' = NoDrag
    /\ ev' = Event("dragend", "")
    /\ UNCHANGED <<page, clientView, atpChecked, timers, tasks, server, userOps, fmtVars>>

\* the request names the snapshot its indices were read from
drop_versioned(r) ==
    /\ r \in 1..Len(queueList)
    /\ drag # NoDrag
    /\ LET from == parseInt(drag)
           to == parseInt(queueList[r].index)
       IN  Issue("drop", <<drag, r>>,
                 Request("drop", "POST", "/api/queue/reorder",
                         [from |-> from, to |-> to,
                          version |-> [j \in 1..Len(queueList) |-> queueList[j].h]]))
    /\ drag' = NoDrag
    /\ UNCHANGED <<page, clientView, atpChecked, timers, server, userOps, fmtVars>>

\* the dragged row is dropped on row r of the queue list
drop(r) ==
    /\ r \in 1..Len(queueList)
    /\ drag # NoDrag
    /\ LET from == parseInt(drag)
           to == parseInt(queueList[r].index)
       IN  Issue("drop", <<drag, r>>,
                 Request("drop", "POST", "/api/queue/reorder", ReorderBody(from, to)))
    /\ drag' = NoDrag
    /\ UNCHANGED <<page, clientView, atpChecked, timers, server, userOps, fmtVars>>

\* refreshQueue() is called without awaiting the fetch
play_not_awaited ==
    /\ Gesture
    /\ Len(tasks) < MaxInFlight
    /\ tasks' = tasks \o <<Request("play", "POST", "/api/play", NoBody), call_refreshQueue>>
    /\ ev' = Event("play", "")
    /\ UNCHANGED <<page, clientView, atpChecked, drag, timers, server, fmtVars>>

play ==
    /\ Gesture
    /\ Issue("play", "", Request("play", "POST", "/api/play", NoBody))
    /\ UNCHANGED <<page, clientView, atpChecked, drag, timers, server, fmtVars>>

pause ==
    /\ Gesture
    /\ Issue("pause", "", Request("pause", "POST", "/api/pause", NoBody))
    /\ UNCHANGED <<page, clientView, atpChecked, drag, timers, server, fmtVars>>

\* the listener goes on to call refreshQueue()
atp_change_refreshing ==
    /\ atpChecked' = ~atpChecked
    /\ Gesture
    /\ Len(tasks) < MaxInFlight
    /\ tasks' = tasks \o <<Request("atp_change", "POST", "/api/autoplay_set", atpChecked'),
                           call_refreshQueue>>
    /\ ev' = Event("atp_change", "")
    /\ UNCHANGED <<page, clientView, drag, timers, server, fmtVars>>

\* the autoplay checkbox is toggled
atp_change ==
    /\ atpChecked' = ~atpChecked
    /\ Gesture
    /\ Issue("atp_change", "",
             Request("atp_change", "POST", "/api/autoplay_set", atpChecked'))
    /\ UNCHANGED <<page, clientView, drag, timers, server, fmtVars>>

----------------------------------------------------------------------------
(* Specifications *)

UserStep ==
    \/ \E r \in 1..Len(musicList) : div_onclick(r)
    \/ \E r \in 1..Len(queueList) : btn_onclick(r)
    \/ \E r \in 1..Len(queueList) : dragstart(r)
    \/ dragend
    \/ \E r \in 1..Len(queueList) : drop(r)
    \/ play
    \/ pause
    \/ atp_change

\* the refreshes: their timers and their continuations
RefreshStep ==
    \/ \E k \in 1..Len(tasks) : loadMusics(k)
    \/ \E k \in 1..Len(tasks) : refreshQueue(k)
    \/ \E k \in 1..Len(tasks) : refreshQueue_current(k)
    \/ \E f \in {"loadMusics", "refreshQueue"} : timeout(f)

ClientStep ==
    \/ RefreshStep
    \/ \E k \in 1..Len(tasks) : mutation_then_refresh(k)

ServerStep == \E k \in 1..Len(tasks) : SrvHandle(k)

EnvStep == EnvRescan

OtherClientStep == EnvOtherClient

FailStep == \E k \in 1..Len(tasks) : FetchFails(k)

\* every fetch is answered
Next == UserStep \/ ClientStep \/ ServerStep \/ EnvStep

Spec == Init /\ [][Next]_vars

\* script.js, the page that sets timers, right after its top-level code ran
InitScript == Init /\ page = "script"

\* the queue is shared: another client mutates it (the library stays as it is)
NextShared == UserStep \/ ClientStep \/ ServerStep \/ OtherClientStep

SpecShared == InitScript /\ [][NextShared]_vars

\* a fetch may be rejected (the server's state changes by this client only)
NextFail == UserStep \/ ClientStep \/ ServerStep \/ FailStep

SpecFail == InitScript /\ [][NextFail]_vars

\* the page left alone: no user gesture
NextIdle == RefreshStep \/ ServerStep \/ EnvStep \/ FailStep

\* a pending timer expires, a sent request is handled, a resolved fetch resumes
\* its handler
Progress ==
    /\ \A f \in {"loadMusics", "refreshQueue"} : WF_vars(timeout(f))
    /\ WF_vars(ServerStep)
    /\ WF_vars(RefreshStep)

\* script.js left alone
FairIdle == InitScript /\ [][NextIdle]_vars /\ Progress

----------------------------------------------------------------------------
(* The formatter on its own: a duration is drawn and formatted once *)

InitFmt ==
    /\ page \in Pages
    /\ musics = CatalogOf({})
    /\ musicList = <<>>
    /\ queueList = <<>>
    /\ nowPlaying = ""
    /\ title = DefaultTitle
    /\ atpChecked = FALSE
    /\ drag = NoDrag
    /\ timers = {}
    /\ tasks = <<>>
    /\ srvMusics = InitMusics
    /\ srvQueue = InitQueue
    /\ srvCurrent = Nothing
    /\ srvAutoplay = FALSE
    /\ userOps = 0
    /\ ev = Event("load", "")
    /\ fmtIn \in 0..MaxDuration
    /\ fmtOut = ""

\* the page's formatter is applied to the duration
Format ==
    /\ fmtOut = ""
    /\ fmtOut' = IF page = "script" THEN fancytime(fmtIn)
                 ELSE fancyname_part000_time(fmtIn)
    /\ ev' = Event("format", fmtIn)
    /\ UNCHANGED <<page, clientView, atpChecked, drag, timers, tasks, server,
                   userOps, fmtIn>>

SpecFmt == InitFmt /\ [][Format]_vars

----------------------------------------------------------------------------
(* C1: duration formatting *)

\* mm:ss with 60-second rollover, both components padded to two digits
pad2(n) == IF n < 10 THEN "0" \o ToString(n) ELSE ToString(n)
StandardTime(d) == pad2(d \div 60) \o ":" \o pad2(d % 60)

\* C1: for every integer duration d >= 0 the formatter returns
\* pad2(floor(d/60)) ":" pad2(d mod 60)
C1_StandardRollover ==
    ev.op = "format" => fmtOut = StandardTime(fmtIn)

----------------------------------------------------------------------------
(* What a claim observes *)

\* the identifiers of the rendered queue rows, top to bottom
RenderedIds == [j \in 1..Len(queueList) |-> queueList[j].h]

IsQueueGet(t) == t.method = "GET" /\ t.url = "/api/queue"
IsCurrentGet(t) == t.method = "GET" /\ t.url = "/api/current"
IsMusicsGet(t) == t.method = "GET" /\ t.url = "/api/musics"
IsAtpSet(t) == t.method = "POST" /\ t.url = "/api/autoplay_set"
IsAtpGet(t) == t.method = "GET" /\ t.url = "/api/autoplay_get"
IsRefreshGet(t) == IsQueueGet(t) \/ IsCurrentGet(t) \/ IsMusicsGet(t)

\* how many requests of a kind are in flight among ts
NumQueueGets(ts) == Cardinality({k \in 1..Len(ts) : IsQueueGet(ts[k])})
NumCurrentGets(ts) == Cardinality({k \in 1..Len(ts) : IsCurrentGet(ts[k])})
NumRefreshGets(ts) == Cardinality({k \in 1..Len(ts) : IsRefreshGet(ts[k])})
NumAtpGets(ts) == Cardinality({k \in 1..Len(ts) : IsAtpGet(ts[k])})
NumAtpSets(ts) == Cardinality({k \in 1..Len(ts) : IsAtpSet(ts[k])})

\* the step appended exactly the request req and touched no other request
IssuedExactly(req) == tasks' = Append(tasks, req)

----------------------------------------------------------------------------
(* C2: last response to complete wins *)

\* the now-playing text that shows the /api/current payload npData
StatusShown(npData) ==
    IF npData.hash = NoHash THEN nowPlaying = "Nothing"
    ELSE /\ npData.hash \in DOMAIN musics
         /\ nowPlaying = IF page = "script" THEN NowPlayingText(npData, musics)
                         ELSE NowPlayingText_part000(npData, musics)

\* C2: when a response of /api/musics, /api/queue or /api/current has been
\* processed, the cached catalog, the rendered queue list or the rendered
\* playback status is the payload of that response, whatever was issued first
C2_LastCompletedWins ==
    /\ ev.op = "loadMusics" => musics = ev.arg
    /\ ev.op = "refreshQueue" => RenderedIds = ev.arg
    /\ ev.op = "refreshQueue_current" => StatusShown(ev.arg)

----------------------------------------------------------------------------
(* C3: the reorder request carries the two indices verbatim *)

\* C3: dragstart stores the position index of the row it starts on, and a drop
\* on the row at position j issues exactly one POST /api/queue/reorder whose
\* body is {from: the stored index, to: j}
C3_ReorderVerbatim ==
    [][/\ ev'.op = "dragstart" => drag' = ToString(ev'.arg - 1)
       /\ ev'.op = "drop" =>
            \E i \in 0..(MaxUser + Len(InitQueue)) :
                /\ ToString(i) = drag
                /\ IssuedExactly(Request("drop", "POST", "/api/queue/reorder",
                                         [from |-> i, to |-> ev'.arg[2] - 1]))]_vars

\* position 0 of a three-row list has been dropped on position 2
C3_Witness ==
    /\ ev.op = "drop" /\ ev.arg = <<"0", 3>>
    /\ RenderedIds = <<"a", "b", "a">>
    /\ tasks[Len(tasks)].body = [from |-> 0, to |-> 2]

----------------------------------------------------------------------------
(* C4: delete is keyed by identifier only *)

\* C4: a click on Delete of a row issues exactly one DELETE /api/queue whose
\* body is {hash: h}, h the identifier of that row, and nothing else
C4_DeleteByHash ==
    [][ev'.op = "btn_onclick" =>
         /\ Len(tasks') = Len(tasks) + 1
         /\ SubSeq(tasks', 1, Len(tasks)) = tasks
         /\ LET req == tasks'[Len(tasks')]
            IN  /\ req.method = "DELETE" /\ req.url = "/api/queue"
                /\ DOMAIN req.body = {"hash"}
                /\ req.body.hash = RenderedIds[ev'.arg]]_vars

\* the second row showing "a" of the rendered queue [a,b,a] has been deleted
C4_Witness ==
    /\ ev.op = "btn_onclick" /\ ev.arg = 3
    /\ RenderedIds = <<"a", "b", "a">>
    /\ tasks[Len(tasks)].body = [hash |-> "a"]

----------------------------------------------------------------------------
(* C5: an identifier missing from the cached catalog *)

\* C5: a refresh whose response names an identifier the cached catalog lacks
\* does not throw: every row of the response is rendered and the playback
\* status of the cycle is fetched and rendered
C5_MissingIdTolerated ==
    /\ ev.op = "refreshQueue" =>
         /\ ~ev.threw
         /\ Len(queueList) = Len(ev.arg)
         /\ NumCurrentGets(tasks) >= 1
    /\ (ev.op = "refreshQueue_current" /\ ev.arg.hash \notin DOMAIN musics \cup {NoHash}) =>
         ~ev.threw

----------------------------------------------------------------------------
(* C6: a mutation is followed by one refresh, after its response *)

MutationGestures == {"div_onclick", "btn_onclick", "drop", "play", "pause"}

IsAnswered(t) == t.fn \in Mutations /\ t.pc = "received"
IsMutation(t) == t.fn \in Mutations
NumAnswered(ts) == Cardinality({k \in 1..Len(ts) : IsAnswered(ts[k])})
NumMutations(ts) == Cardinality({k \in 1..Len(ts) : IsMutation(ts[k])})

\* C6: the step that resumes a mutation handler after its response issues
\* exactly one GET /api/queue; the gesture that issues the mutation request and
\* the server's handling of it issue none; and an answered mutation leaves only
\* by that resumption or by the rejection of its fetch
C6_RefreshAfterMutation ==
    [][/\ ev'.op = "mutation_done" =>
            /\ NumQueueGets(tasks') = NumQueueGets(tasks) + 1
            /\ NumAnswered(tasks') = NumAnswered(tasks) - 1
            /\ Len(tasks') = Len(tasks)
       /\ ev'.op \in MutationGestures =>
            /\ NumMutations(tasks') = NumMutations(tasks) + 1
            /\ NumQueueGets(tasks') = NumQueueGets(tasks)
            /\ Len(tasks') = Len(tasks) + 1
       /\ ev'.op = "server" =>
            NumQueueGets(tasks') = NumQueueGets(tasks)
       /\ NumAnswered(tasks') < NumAnswered(tasks) =>
            ev'.op \in {"mutation_done", "fail"}]_vars

\* /api/play has been answered and play() has resumed
C6_Witness ==
    /\ ev.op = "mutation_done" /\ ev.arg = "play"
    /\ tasks[Len(tasks)] = call_refreshQueue

----------------------------------------------------------------------------
(* C7: the refreshes recur on their timers *)

\* C7: with no user action, a timer starts the catalog refresh and a timer
\* starts the queue+status refresh again and again
C7_TimersRecur ==
    /\ []<>(ev.op = "timeout" /\ ev.arg = "loadMusics")
    /\ []<>(ev.op = "timeout" /\ ev.arg = "refreshQueue")

----------------------------------------------------------------------------
(* C8: reconciliation *)

\* nothing is in flight, no timer is pending, no drag is under way: unless the
\* user makes a further gesture, no handler of the page runs again
Settled == tasks = <<>> /\ timers = {} /\ drag = NoDrag

\* C8: once the user has stopped and every request has been answered, the
\* rendered queue list of script.js is the server's queue
C8_Reconciled == (page = "script" /\ Settled) => RenderedIds = srvQueue

----------------------------------------------------------------------------
(* C9: the autoplay toggle is fire-and-forget *)

\* C9: toggling the autoplay control issues exactly one POST /api/autoplay_set
\* whose body is the new state of the control, issues no GET, leaves the cached
\* catalog and the rendered lists and status as they are; and when that
\* request ends, answered or rejected, nothing is issued or rendered either
C9_AutoplayFireAndForget ==
    [][/\ ev'.op = "atp_change" =>
            /\ atpChecked' = ~atpChecked
            /\ IssuedExactly(Request("atp_change", "POST", "/api/autoplay_set", atpChecked'))
            /\ UNCHANGED clientView
       /\ NumAtpSets(tasks') < NumAtpSets(tasks) =>
            /\ NumRefreshGets(tasks') = NumRefreshGets(tasks)
            /\ Len(tasks') = Len(tasks) - 1
            /\ UNCHANGED clientView]_vars

\* the control has been switched on over a rendered page, and the server told
C9_Witness ==
    /\ ev.op = "atp_change"
    /\ atpChecked
    /\ tasks[Len(tasks)].body = TRUE
    /\ queueList # <<>>

----------------------------------------------------------------------------
(* C10: the autoplay flag is read once *)

\* C10: exactly one GET /api/autoplay_get is issued at page load, and no later
\* step issues another
C10_AutoplayReadOnce ==
    /\ NumAtpGets(tasks) = 1
    /\ [][NumAtpGets(tasks') <= NumAtpGets(tasks)]_vars

----------------------------------------------------------------------------
(* C11: idempotence of refresh *)

\* C11: a completed catalog refresh whose response is the catalog already
\* cached leaves the cached catalog and the catalog list as they are; a
\* completed queue render whose response is the queue already on display
\* leaves the queue list as it is, row for row; a completed status render
\* whose response is the status already on display leaves status and title
C11_RefreshIdempotent ==
    [][/\ (ev'.op = "loadMusics" /\ ev'.arg = musics) =>
            UNCHANGED <<musics, musicList>>
       /\ (ev'.op = "refreshQueue" /\ ~ev'.threw /\ ev'.arg = RenderedIds) =>
            UNCHANGED queueList
       /\ (ev'.op = "refreshQueue_current" /\ ~ev'.threw /\ StatusShown(ev'.arg)) =>
            UNCHANGED <<nowPlaying, title>>]_vars

\* one refresh cycle has rendered queue and status, no mutation has been made,
\* and a later cycle has just rendered the same queue again
C11_Witness ==
    /\ ev.op = "refreshQueue" /\ ~ev.threw
    /\ nowPlaying # ""
    /\ userOps = 0
    /\ ev.arg = InitQueue /\ RenderedIds = InitQueue

----------------------------------------------------------------------------
(* C12: the cached catalog is replaced whole *)

\* the identifiers of the rendered catalog rows, top to bottom
CatalogListIds == [j \in 1..Len(musicList) |-> musicList[j].h]

\* the catalogs the server has answered with, and the empty one of page load
WholeCatalogs == {CatalogOf({}), InitMusics, RescannedMusics}

\* C12: a completed catalog refresh leaves as cached mapping exactly its
\* response, with no key of the previous mapping besides; and after every step
\* of the page the catalog list on display has the rows of the cached mapping,
\* which is one whole response and never a mix of two
C12_CatalogReplacedWhole ==
    [][/\ ev'.op = "loadMusics" =>
            /\ musics' = ev'.arg
            /\ DOMAIN musics' = DOMAIN ev'.arg
       /\ CatalogListIds' = Entries(musics')
       /\ musics' \in WholeCatalogs]_vars

\* the rescanned catalog has replaced a cached catalog that held "b": the
\* queue row rendered from that one is still on display
C12_Witness ==
    /\ ev.op = "loadMusics"
    /\ musics = RescannedMusics
    /\ CatalogListIds = <<"a", "c">>
    /\ \E j \in 1..Len(queueList) : queueList[j].h = "b"

----------------------------------------------------------------------------
(* C13: both indices of a reorder come from one snapshot *)

\* C13: when a drop issues the Reorder request, its `from` and its `to` are
\* both positions of the queue list on display, the last one rendered
C13_SameSnapshot ==
    [][ev'.op = "drop" =>
         LET body == tasks'[Len(tasks')].body
         IN  /\ body.from \in 0..(Len(queueList) - 1)
             /\ body.to \in 0..(Len(queueList) - 1)]_vars

----------------------------------------------------------------------------
(* C14: the stale-index race *)

\* the bodies of the Reorder requests that have been sent and not yet handled
ReorderSent(ts) ==
    {ts[k].body : k \in {j \in 1..Len(ts) : ts[j].fn = "drop" /\ ts[j].pc = "sent"}}

\* C14: a drop sends its Reorder request whatever the server's queue has
\* become: the body holds the two indices and nothing else (no version token),
\* and a request once sent stays as it is until the server handles it or the
\* transport fails
C14_StaleReorderUnguarded ==
    [][/\ ev'.op = "drop" =>
            /\ Len(tasks') = Len(tasks) + 1
            /\ tasks'[Len(tasks')].url = "/api/queue/reorder"
            /\ tasks'[Len(tasks')].pc = "sent"
            /\ DOMAIN tasks'[Len(tasks')].body = {"from", "to"}
       /\ \A body \in ReorderSent(tasks) :
            body \in ReorderSent(tasks') \/ ev'.op \in {"server", "fail"}]_vars

\* the list on display is still [a,b,a]; another client's removal came first,
\* and the server has then applied a Reorder computed from the list on display:
\* the track it moved is not the one displayed at `from`
C14_Witness ==
    /\ ev.op = "server"
    /\ RenderedIds = InitQueue
    /\ \E k \in 1..Len(tasks) :
         /\ tasks[k].fn = "drop" /\ tasks[k].pc = "received"
         /\ tasks[k].body.from # tasks[k].body.to
         /\ srvQueue = SrvReorder(OtherClientQueue, tasks[k].body.from, tasks[k].body.to)
         /\ srvQueue[tasks[k].body.to + 1] # RenderedIds[tasks[k].body.from + 1]

----------------------------------------------------------------------------
(* C15: queue list and playback status are refreshed as a pair *)

\* C15: when a refresh cycle finishes with its status render, the queue list
\* and the status on display are both that cycle's: no other cycle stands
\* between its own queue render and its own status render, so that one of the
\* two would finish over the other's queue list
C15_RefreshedAsPair ==
    [][(ev'.op = "refreshQueue_current" /\ ~ev'.threw) =>
         NumCurrentGets(tasks') = 0]_vars

----------------------------------------------------------------------------
(* C16: what a status render shows *)

PlayingGlyph == "&#x23F5;"
PausedGlyph == "&#x23F8;"

\* the text that follows the glyph in the now-playing area
AfterGlyph(npData, m) ==
    " " \o fancytime(npData.position) \o " | "
        \o fancyname(m[npData.hash].name, npData.hash, npData.duration)

\* C16: after a status render over a response whose identifier is empty, the
\* now-playing area shows "Nothing" and the title is "MusiSync"; over a
\* response whose identifier is in the cached catalog, the title contains the
\* name of that track and the now-playing area starts with the playing glyph
\* when paused is false, with the paused glyph when paused is true
C16_StatusRender ==
    (ev.op = "refreshQueue_current" /\ ev.arg.hash \in DOMAIN musics \cup {NoHash}) =>
        IF ev.arg.hash = NoHash
        THEN nowPlaying = "Nothing" /\ title = "MusiSync"
        ELSE /\ title = "MusiSync - " \o musics[ev.arg.hash].name
             /\ nowPlaying = (IF ev.arg.paused THEN PausedGlyph ELSE PlayingGlyph)
                                \o AfterGlyph(ev.arg, musics)

----------------------------------------------------------------------------
(* C17: a refresh cycle with a rejected request *)

\* C17: when a request of a refresh cycle is rejected, the cycle leaves the
\* cached catalog, both lists, the status and the title as it found them: the
\* step of the rejection changes none of them, and the cycle has rendered
\* nothing before it, the rejected request being the first it issued
C17_FailedCycleLeavesView ==
    [][(ev'.op = "fail" /\ ev'.arg.fn \in {"loadMusics", "refreshQueue"}) =>
         /\ UNCHANGED clientView
         /\ ev'.arg.url \in {"/api/musics", "/api/queue"}]_vars

----------------------------------------------------------------------------
(* C18: no optimistic update *)

\* a response of kind url with payload d has arrived and waits to be processed
Received(url, d) ==
    \E k \in 1..Len(tasks) :
        /\ tasks[k].method = "GET" /\ tasks[k].url = url
        /\ tasks[k].pc = "received" /\ tasks[k].data = d

\* C18: the queue list changes only in the step that processes a response of
\* GET /api/queue, the status only in the step that processes a response of
\* GET /api/current; the gesture that issues an enqueue, delete, reorder, play
\* or pause request, the arrival of its response and the resumption of its
\* handler leave both as they are
C18_NoOptimisticUpdate ==
    [][/\ queueList' # queueList =>
            ev'.op = "refreshQueue" /\ Received("/api/queue", ev'.arg)
       /\ nowPlaying' # nowPlaying =>
            ev'.op = "refreshQueue_current" /\ Received("/api/current", ev'.arg)
       /\ (\/ ev'.op \in MutationGestures \cup {"dragstart", "mutation_done"}
           \/ NumAnswered(tasks') > NumAnswered(tasks)) =>
            UNCHANGED <<queueList, nowPlaying, title>>]_vars

\* the server has removed an entry on this page's request and the Delete
\* handler has resumed: the list on display is still the one of before
C18_Witness ==
    /\ ev.op = "mutation_done" /\ ev.arg = "btn_onclick"
    /\ RenderedIds = InitQueue
    /\ srvQueue # InitQueue

----------------------------------------------------------------------------
(* C19: the rows of a queue render *)

\* C19: after a queue render over a response q whose identifiers are all in
\* the cached catalog, the list has Len(q) rows and nothing else; the row at
\* position k carries index k, as number and as dataset text, and is bound to
\* q[k], whose name and duration make its label; every occurrence of an
\* identifier has its own row
C19_QueueRows ==
    (ev.op = "refreshQueue" /\ FirstMissing(ev.arg, musics) = 0) =>
        /\ Len(queueList) = Len(ev.arg)
        /\ \A j \in 1..Len(ev.arg) :
             /\ queueList[j].i = j - 1
             /\ queueList[j].index = ToString(j - 1)
             /\ queueList[j].h = ev.arg[j]
             /\ queueList[j].label =
                  RowLabel(page, musics[ev.arg[j]].name, ev.arg[j], musics[ev.arg[j]].duration)

\* the three rows of [a,b,a] were on display, the user had "b" deleted, and
\* the render that followed has left two rows, one for each "a"
C19_Witness ==
    /\ ev.op = "refreshQueue" /\ ~ev.threw
    /\ userOps = 1
    /\ ev.arg = <<"a", "a">>
    /\ RenderedIds = ev.arg
    /\ queueList[1].index = "0" /\ queueList[2].index = "1"

----------------------------------------------------------------------------
(* C20: a rejected mutation starts no refresh *)

\* C20: the step in which the request of an enqueue, delete, reorder, play or
\* pause is rejected issues no GET, ends that handler and leaves the cached
\* catalog, the lists, the status and the title as they are; and a GET
\* /api/queue is issued only by a timer or by a mutation handler whose response
\* has arrived, so a mutation that never completes starts no refresh either
C20_RejectedMutationNoRefresh ==
    [][/\ (ev'.op = "fail" /\ ev'.arg.fn \in Mutations) =>
            /\ NumRefreshGets(tasks') = NumRefreshGets(tasks)
            /\ Len(tasks') = Len(tasks) - 1
            /\ NumMutations(tasks') = NumMutations(tasks) - 1
            /\ UNCHANGED clientView
       /\ NumQueueGets(tasks') > NumQueueGets(tasks) =>
            \/ ev'.op = "timeout"
            \/ ev'.op = "mutation_done" /\ NumAnswered(tasks') = NumAnswered(tasks) - 1]_vars

\* the Delete request of a rendered row was rejected before the server saw it:
\* no refresh is under way and the row is still on display
C20_Witness ==
    /\ ev.op = "fail" /\ ev.arg.fn = "btn_onclick" /\ ev.arg.pc = "sent"
    /\ NumRefreshGets(tasks) = 0
    /\ RenderedIds = InitQueue /\ srvQueue = InitQueue

====
